---- MODULE Spec2Model ----
(***************************************************************************)
(* Model of the module orchestration core of the engineering automation    *)
(* agent (core_agent.py): the module registry, the workflow runner, the    *)
(* execution summary and the comprehensive build coordinator.              *)
(*                                                                         *)
(* The agent is single threaded: register_module, execute_module,          *)
(* execute_workflow, get_execution_summary and save_results are atomic     *)
(* actions; execute_comprehensive_build is a sequence of steps (pc) during *)
(* which no other operation of the agent runs.                             *)
(*                                                                         *)
(* The configuration manager (config_manager.py) is modelled beside it:    *)
(* its project store, the projects file, and its validator.                *)
(***************************************************************************)
EXTENDS Integers, Sequences, FiniteSets, TLC

----------------------------------------------------------------------------
(* Bounds *)

MaxResults == 2      \* longest session results list explored
MaxLen     == 2      \* longest workflow passed to execute_workflow
MaxBuilds  == 1      \* number of execute_comprehensive_build calls explored

----------------------------------------------------------------------------
(* Values *)

Names     == {"code_review", "test_suite", "jira"}
RegistryNames == Names \cup {"github", "confluence"}
ModuleIds == {"m1", "m2"}
NoModule  == "none"

ExcMsgs   == {"boom"}

\* Mappings a module's execute may return: one without a 'success' key and
\* one reporting its own failure.
MapPlain  == [status |-> "success"]
MapFailed == [success |-> FALSE, error |-> "lint failed"]
Mappings  == {MapPlain, MapFailed}

\* What one invocation of a collaborator does: return a mapping or raise.
Returns(m) == [kind |-> "return", value |-> m]
Raises(e)  == [kind |-> "raise", msg |-> e]
ExecOutcomes == {Returns(m) : m \in Mappings} \cup {Raises(e) : e \in ExcMsgs}

DefaultTestTypes ==
    <<"unit", "functional", "integration", "regression", "performance",
      "security", "end_to_end">>

Configs ==
    [pre_commit_checks : BOOLEAN,
     exception_reporting_enabled : BOOLEAN,
     fail_build_on_exceptions : BOOLEAN,
     auto_create_bug_tickets : BOOLEAN,
     comprehensive_documentation : {TRUE},
     auto_add_comments : {TRUE},
     test_types : {DefaultTestTypes}]

\* dict.get(key, default)
Get(m, key, default) == IF key \in DOMAIN m THEN m[key] ELSE default

IsPrefix(s, t) == Len(s) <= Len(t) /\ SubSeq(t, 1, Len(s)) = s

----------------------------------------------------------------------------
(* State *)

VARIABLES
    modules,              \* self.modules: name -> module (NoModule: absent)
    config,               \* self.config
    results,              \* self.results, the session-long list
    exceptions_collector, \* self.exceptions_collector
    build_context,        \* self.build_context (the dict the build returns)
    pc,                   \* position inside execute_comprehensive_build
    exc,                  \* exception in flight inside the build body
    buildCount,           \* builds started so far
    buildBase,            \* length of self.results when the last build started
    lastOp,               \* the operation called last
    args,                 \* its arguments
    ret,                  \* what it returned
    calls,                \* the collaborator invocations it made, in order
    raised,               \* it propagated an exception to its caller
    written,              \* what it wrote to the results file
    returned,             \* the BuildContext dicts handed back to callers
    projects              \* ConfigurationManager: the content of projects.json

vars == <<modules, config, results, exceptions_collector, build_context, pc,
          exc, buildCount, buildBase, lastOp, args, ret, calls, raised,
          written, returned, projects>>

NoExc == [kind |-> "none"]
Absent == "<absent>"
NoContext == [build_id |-> 0]

\* The field defaults of AgentConfig.
DefaultConfig ==
    [pre_commit_checks |-> TRUE,
     exception_reporting_enabled |-> TRUE,
     fail_build_on_exceptions |-> FALSE,
     auto_create_bug_tickets |-> TRUE,
     comprehensive_documentation |-> TRUE,
     auto_add_comments |-> TRUE,
     test_types |-> DefaultTestTypes]

InitAgent(cfgs) ==
    /\ modules = [n \in RegistryNames |-> NoModule]
    /\ config \in cfgs
    /\ results = <<>>
    /\ exceptions_collector = <<>>
    /\ build_context = NoContext
    /\ pc = "idle"
    /\ exc = NoExc
    /\ buildCount = 0
    /\ buildBase = 0
    /\ lastOp = "none"
    /\ args = <<>>
    /\ ret = <<>>
    /\ calls = <<>>
    /\ raised = FALSE
    /\ written = Absent
    /\ returned = <<>>
    /\ projects = [name \in {} |-> name]

Init == InitAgent(Configs)
InitDefault == InitAgent({DefaultConfig})

----------------------------------------------------------------------------
(* Module registry *)

\* One invocation of a collaborator, as a mock would record it.
Call(m, name, op, out) == [module |-> m, name |-> name, op |-> op, out |-> out]

\* Mutant: the module is registered whatever validate_config answers.
RegisteredAlways(mods, name, m, v) == [mods EXCEPT ![name] = m]

\* Mutant: a rejected registration clears the entry the name had.
RegisteredOrCleared(mods, name, m, v) ==
    IF v = "true" THEN [mods EXCEPT ![name] = m]
    ELSE [mods EXCEPT ![name] = NoModule]

\* The registry register_module leaves, given what validate_config did.
Registered(mods, name, m, v) ==
    IF v = "true" THEN [mods EXCEPT ![name] = m] ELSE mods

\* register_module(name, module); v is what module.validate_config() does.
RegisterModule(name, m, v) ==
    /\ pc = "idle"
    /\ modules' = Registered(modules, name, m, v)
    /\ calls' = <<Call(m, name, "validate_config", v)>>
    /\ raised' = (v = "raise")
    /\ lastOp' = "register_module"
    /\ args' = [name |-> name, module |-> m]
    /\ ret' = <<>>
    /\ written' = Absent
    /\ UNCHANGED <<config, results, exceptions_collector, build_context, pc,
                   exc, buildCount, buildBase,
                   returned, projects>>

----------------------------------------------------------------------------
(* Workflow runner *)

NotFoundError(name) == "Module '" \o name \o "' not found"
ExecFailedError(e)  == "Module execution failed: " \o e

ExecutionResult(s, n, d, e) ==
    [success |-> s, module_name |-> n, data |-> d, errors |-> e]

\* Mutant: module.execute is called outside any try block.
ExceptCatchesNothing(out) == FALSE

\* 'except Exception' around module.execute: it catches whatever execute
\* raises.
ExceptCatches(out) == out.kind = "raise"

\* Mutant: success is taken from the 'success' key of the returned mapping.
ModuleResultFromMapping(mods, name, out) ==
    IF mods[name] = NoModule
    THEN ExecutionResult(FALSE, name, <<>>, <<NotFoundError(name)>>)
    ELSE IF out.kind = "return"
         THEN ExecutionResult(Get(out.value, "success", TRUE), name,
                              out.value, <<>>)
         ELSE ExecutionResult(FALSE, name, <<>>, <<ExecFailedError(out.msg)>>)

\* The result execute_module builds for one name, given what execute does.
ModuleResult(mods, name, out) ==
    IF mods[name] = NoModule
    THEN ExecutionResult(FALSE, name, <<>>, <<NotFoundError(name)>>)
    ELSE IF out.kind = "return"
         THEN ExecutionResult(TRUE, name, out.value, <<>>)
         ELSE ExecutionResult(FALSE, name, <<>>, <<ExecFailedError(out.msg)>>)

\* execute_module lets the exception of execute through to its caller.
ModulePropagates(mods, name, out) ==
    /\ mods[name] # NoModule
    /\ out.kind = "raise"
    /\ ~ExceptCatches(out)

\* Mutant: the 'except' branch builds its result without recording it.
ModuleAppendSuccessOnly(mods, name, out) ==
    IF mods[name] = NoModule \/ out.kind = "raise"
    THEN <<>>
    ELSE <<ModuleResult(mods, name, out)>>

\* What execute_module appends to self.results: nothing for a missing name.
ModuleAppend(mods, name, out) ==
    IF mods[name] = NoModule \/ ModulePropagates(mods, name, out)
    THEN <<>>
    ELSE <<ModuleResult(mods, name, out)>>

\* The execute invocations execute_module makes.
ModuleCalls(mods, name, out) ==
    IF mods[name] = NoModule THEN <<>>
    ELSE <<Call(mods[name], name, "execute", out)>>

\* Mutant: the session list is assigned instead of appended to.
SessionAssign(rs, new) == new

\* self.results.append(result)
SessionAppend(rs, new) == rs \o new

ExecuteModule(name, out) ==
    /\ pc = "idle"
    /\ Len(results) + Len(ModuleAppend(modules, name, out)) <= MaxResults
    /\ results' = SessionAppend(results, ModuleAppend(modules, name, out))
    /\ raised' = ModulePropagates(modules, name, out)
    /\ ret' = IF raised' THEN <<>> ELSE <<ModuleResult(modules, name, out)>>
    /\ calls' = ModuleCalls(modules, name, out)
    /\ lastOp' = "execute_module"
    /\ args' = name
    /\ written' = Absent
    /\ UNCHANGED <<modules, config, exceptions_collector, build_context, pc,
                   exc, buildCount, buildBase,
                   returned, projects>>

\* Mutant: the loop returns after its first module.
VisitedFirstOnly(mods, W, outs, k) == IF Len(W) = 0 THEN 0 ELSE 1

\* Mutant: the loop has no 'break'.
VisitedNoBreak(mods, W, outs, k) == Len(W)

\* The loop of execute_workflow from position k on; outs[k] is what the
\* module at position k does if it is invoked.  Yields the number of
\* positions the loop visits.
RECURSIVE Visited(_, _, _, _)
Visited(mods, W, outs, k) ==
    IF k > Len(W) THEN Len(W)
    ELSE IF ~ModuleResult(mods, W[k], outs[k]).success THEN k
         ELSE Visited(mods, W, outs, k + 1)

\* Mutant: a missing module stops the loop before its result is recorded.
WorkflowResultsDropMissing(mods, W, outs) ==
    SelectSeq([k \in 1..Visited(mods, W, outs, 1) |->
                  ModuleResult(mods, W[k], outs[k])],
              LAMBDA r : mods[r.module_name] # NoModule)

RECURSIVE Concat(_)
Concat(ss) == IF ss = <<>> THEN <<>> ELSE Head(ss) \o Concat(Tail(ss))

\* The list execute_workflow returns.
WorkflowResults(mods, W, outs) ==
    [k \in 1..Visited(mods, W, outs, 1) |-> ModuleResult(mods, W[k], outs[k])]

\* execute_workflow has no handler of its own: what execute_module lets
\* through reaches the caller of the workflow.
WorkflowPropagates(mods, W, outs) ==
    \E k \in 1..Visited(mods, W, outs, 1) :
        ModulePropagates(mods, W[k], outs[k])

WorkflowAppends(mods, W, outs) ==
    Concat([k \in 1..Visited(mods, W, outs, 1) |->
               ModuleAppend(mods, W[k], outs[k])])

WorkflowCalls(mods, W, outs) ==
    Concat([k \in 1..Visited(mods, W, outs, 1) |->
               ModuleCalls(mods, W[k], outs[k])])

\* The workflows over a set of names, up to the longest one explored.
Workflows(names) == UNION {[1..n -> names] : n \in 0..MaxLen}

ExecuteWorkflow(W, outs) ==
    /\ pc = "idle"
    /\ Len(results) + Len(WorkflowAppends(modules, W, outs)) <= MaxResults
    /\ results' = SessionAppend(results, WorkflowAppends(modules, W, outs))
    /\ raised' = WorkflowPropagates(modules, W, outs)
    /\ ret' = IF raised' THEN <<>> ELSE WorkflowResults(modules, W, outs)
    /\ calls' = WorkflowCalls(modules, W, outs)
    /\ lastOp' = "execute_workflow"
    /\ args' = W
    /\ written' = Absent
    /\ UNCHANGED <<modules, config, exceptions_collector, build_context, pc,
                   exc, buildCount, buildBase,
                   returned, projects>>

----------------------------------------------------------------------------
(* Execution summary *)

RECURSIVE CountSuccess(_)
CountSuccess(rs) ==
    IF rs = <<>> THEN 0
    ELSE (IF Head(rs).success THEN 1 ELSE 0) + CountSuccess(Tail(rs))

\* Mutant: the rate is computed without the 'if total_modules > 0'.
SuccessRateUnguarded(successful, total) ==
    [num |-> successful * 100, den |-> total]

\* success_rate is the quotient num/den of successful*100 by total, and 0
\* for an empty session.
SuccessRate(successful, total) ==
    IF total > 0 THEN [num |-> successful * 100, den |-> total]
    ELSE [num |-> 0, den |-> 1]

\* ExecutionResult.to_dict()
ToDict(r) ==
    [success |-> r.success, module_name |-> r.module_name, data |-> r.data,
     errors |-> r.errors, warnings |-> <<>>]

ExecutionSummary(rs) ==
    [total_modules |-> Len(rs),
     successful_modules |-> CountSuccess(rs),
     failed_modules |-> Len(rs) - CountSuccess(rs),
     success_rate |-> SuccessRate(CountSuccess(rs), Len(rs)),
     results |-> [k \in 1..Len(rs) |-> ToDict(rs[k])]]

\* JSON values: what json.dump writes for a number, a boolean, a string, a
\* list, a dict.
JNumber(n)  == [json |-> "number", v |-> n]
JBoolean(b) == [json |-> "boolean", v |-> b]
JString(x)  == [json |-> "string", v |-> x]
JArray(xs)  == [json |-> "array", v |-> xs]
JObject(o)  == [json |-> "object", v |-> o]

\* json.dump(summary, f, indent=2, default=str) for the dict save_results
\* builds: the summary's keys and 'config' at the top level.
JsonDump(summary, cfg) ==
    JObject(
      [total_modules |-> JNumber(summary.total_modules),
       successful_modules |-> JNumber(summary.successful_modules),
       failed_modules |-> JNumber(summary.failed_modules),
       success_rate |-> JNumber(summary.success_rate),
       results |-> JArray([k \in 1..Len(summary.results) |->
                     JObject([success |-> JBoolean(summary.results[k].success),
                              module_name |-> JString(summary.results[k].module_name),
                              data |-> JObject(summary.results[k].data),
                              errors |-> JArray(summary.results[k].errors),
                              warnings |-> JArray(summary.results[k].warnings)])]),
       config |-> JObject(cfg)])

\* json.load of such a document: the dict of its top-level keys, and the
\* list of dicts under 'results'.
JsonLoad(doc) ==
    [total_modules |-> doc.v.total_modules.v,
     successful_modules |-> doc.v.successful_modules.v,
     failed_modules |-> doc.v.failed_modules.v,
     success_rate |-> doc.v.success_rate.v,
     results |-> [k \in 1..Len(doc.v.results.v) |->
                    [f \in DOMAIN doc.v.results.v[k].v |->
                        doc.v.results.v[k].v[f].v]],
     config |-> doc.v.config.v]

GetExecutionSummary ==
    /\ pc = "idle"
    /\ ret' = ExecutionSummary(results)
    /\ lastOp' = "get_execution_summary"
    /\ args' = <<>>
    /\ calls' = <<>>
    /\ raised' = FALSE
    /\ written' = Absent
    /\ UNCHANGED <<modules, config, results, exceptions_collector,
                   build_context, pc, exc, buildCount, buildBase,
                   returned, projects>>

\* save_results(filepath); io is what opening and writing the file does.
SaveResults(io) ==
    /\ pc = "idle"
    /\ written' = IF io = "ok"
                  THEN JsonDump(ExecutionSummary(results), config)
                  ELSE Absent
    /\ raised' = (io # "ok")
    /\ lastOp' = "save_results"
    /\ args' = <<>>
    /\ ret' = <<>>
    /\ calls' = <<>>
    /\ UNCHANGED <<modules, config, results, exceptions_collector,
                   build_context, pc, exc, buildCount, buildBase,
                   returned, projects>>

----------------------------------------------------------------------------
(* Build coordinator: execute_comprehensive_build *)

ExceptionRecord(component, error) == [component |-> component, error |-> error]

\* format_exception_details(e)
FormatExceptionDetails(type, msg) == [type |-> type, message |-> msg]

\* An 'error' that is a plain string (taken from a mapping, or the default
\* text), as a value of the same shape as the details of an exception.
ErrorText(s) == [type |-> "str", message |-> s]

\* Mutant: a new record replaces what the collector held.
CollectReplacing(collector, record) == <<record>>

\* self.exceptions_collector.append(record)
Collect(collector, record) == Append(collector, record)

\* The agent class defines no execute_all_workflows: the attribute lookup in
\* the build body raises AttributeError.
MissingMethodError ==
    [kind |-> "raise", type |-> "AttributeError",
     msg |-> "'EngineeringAutomationAgent' object has no attribute 'execute_all_workflows'"]

\* BuildContext.exceptions is a reference: the context's own empty list until
\* the collector itself is assigned to it.
ContextExceptions(bc) ==
    IF bc.exceptions = "collector" THEN exceptions_collector ELSE <<>>

\* Mutant: a new context starts as failed.
NewBuildContextFailed(id) ==
    [build_id |-> id, success |-> FALSE, exceptions |-> "own",
     test_results |-> <<>>, code_review_results |-> <<>>, artifacts |-> <<>>,
     error |-> Absent]

\* The dict execute_comprehensive_build creates on entry.
NewBuildContext(id) ==
    [build_id |-> id, success |-> TRUE, exceptions |-> "own",
     test_results |-> <<>>, code_review_results |-> <<>>, artifacts |-> <<>>,
     error |-> Absent]

\* Entry of execute_comprehensive_build, in a session of at most 'limit'
\* builds.
BuildStartWithin(limit) ==
    /\ pc = "idle"
    /\ buildCount < limit
    /\ buildCount' = buildCount + 1
    /\ build_context' = NewBuildContext(buildCount + 1)
    /\ pc' = IF config.pre_commit_checks THEN "pre_commit_code_review"
             ELSE "execute_all_workflows"
    /\ exc' = NoExc
    /\ buildBase' = Len(results)
    /\ lastOp' = "execute_comprehensive_build"
    /\ args' = <<>>
    /\ ret' = <<>>
    /\ calls' = <<>>
    /\ raised' = FALSE
    /\ written' = Absent
    /\ UNCHANGED <<modules, config, results, exceptions_collector,
                   returned, projects>>

BuildStart == BuildStartWithin(MaxBuilds)

\* Mutant: the pre-checks are run through execute_module.
PreCheckAppendsViaRunner(mods, name, out) == ModuleAppend(mods, name, out)

\* What a pre-check adds to self.results: the phase calls execute on the
\* module object itself and builds no ExecutionResult.
PreCheckAppends(mods, name, out) == <<>>

\* Mutant: a code review that reports failure ends the pre-commit phase.
AfterCodeReviewHalting(out) ==
    IF Get(out.value, "success", TRUE) THEN "pre_commit_tests"
    ELSE "execute_all_workflows"

\* Where control goes when the code review returned: the 'if not success'
\* block only records, and the test-suite block follows it.
AfterCodeReview(out) == "pre_commit_tests"

\* Mutant: each pre-check has a try block of its own.
AfterCodeReviewRaiseResuming(out) == "pre_commit_tests"

\* Where control goes when the code review raised: the one 'except' of the
\* phase follows both halves, and the phase returns after it.
AfterCodeReviewRaise(out) == "execute_all_workflows"

\* _run_pre_commit_checks, first half: the code review.  A raise leaves the
\* try block, so the test-suite half is skipped.
PreCommitCodeReview(out) ==
    /\ pc = "pre_commit_code_review"
    /\ IF modules["code_review"] = NoModule
       THEN /\ pc' = "pre_commit_tests"
            /\ UNCHANGED <<exceptions_collector, calls>>
       ELSE /\ calls' = Append(calls, Call(modules["code_review"],
                                           "code_review", "execute", out))
            /\ IF out.kind = "raise"
               THEN /\ exceptions_collector' =
                          Collect(exceptions_collector,
                                 ExceptionRecord("pre_commit_checks",
                                     FormatExceptionDetails("Exception", out.msg)))
                    /\ pc' = AfterCodeReviewRaise(out)
               ELSE /\ exceptions_collector' =
                          IF ~Get(out.value, "success", TRUE)
                          THEN Collect(exceptions_collector,
                                      ExceptionRecord("pre_commit_code_review",
                                          ErrorText(Get(out.value, "error", "Code review failed"))))
                          ELSE exceptions_collector
                    /\ pc' = AfterCodeReview(out)
    /\ results' = SessionAppend(results,
                      PreCheckAppends(modules, "code_review", out))
    /\ UNCHANGED <<modules, config, build_context, exc, buildCount,
                   buildBase, lastOp, args, ret, raised, written,
                   returned, projects>>

\* _run_pre_commit_checks, second half: the unit tests, with
\* config.test_types narrowed around the call and restored after it returns.
PreCommitTests(out) ==
    /\ pc = "pre_commit_tests"
    /\ pc' = "execute_all_workflows"
    /\ IF modules["test_suite"] = NoModule
       THEN UNCHANGED <<exceptions_collector, calls, config>>
       ELSE /\ calls' = Append(calls, Call(modules["test_suite"],
                                           "test_suite", "execute", out))
            /\ IF out.kind = "raise"
               THEN /\ config' = [config EXCEPT !.test_types = <<"unit">>]
                    /\ exceptions_collector' =
                          Collect(exceptions_collector,
                                 ExceptionRecord("pre_commit_checks",
                                     FormatExceptionDetails("Exception", out.msg)))
               ELSE /\ config' = config
                    /\ exceptions_collector' =
                          IF ~Get(out.value, "success", TRUE)
                          THEN Collect(exceptions_collector,
                                      ExceptionRecord("pre_commit_tests",
                                          ErrorText(Get(out.value, "error", "Pre-commit tests failed"))))
                          ELSE exceptions_collector
    /\ results' = SessionAppend(results,
                      PreCheckAppends(modules, "test_suite", out))
    /\ UNCHANGED <<modules, build_context, exc, buildCount,
                   buildBase, lastOp, args, ret, raised, written,
                   returned, projects>>

\* 'workflow_results = self.execute_all_workflows()': the lookup raises and
\* control passes to the top-level except clause.
ExecuteAllWorkflows ==
    /\ pc = "execute_all_workflows"
    /\ exc' = MissingMethodError
    /\ pc' = "top_level_guard"
    /\ UNCHANGED <<modules, config, results, exceptions_collector,
                   build_context, buildCount, buildBase, lastOp, args, ret,
                   calls, raised, written,
                   returned, projects>>

\* Mutant: the guard asks for a ticket whenever a 'jira' module is there.
GuardTicketingIgnoresFlag(mods, cfg) == mods["jira"] # NoModule

\* The guard asks the ticketing module for a bug ticket.
GuardTicketing(mods, cfg) ==
    mods["jira"] # NoModule /\ cfg.auto_create_bug_tickets

\* Mutant: the ticketing call of the guard is not guarded itself.
TicketingUncaught(jiraOut) == FALSE

\* 'except Exception as jira_error' around that call: whatever
\* integrate_with_build raises is logged and dropped.
TicketingCaught(jiraOut) == jiraOut.kind = "raise"

TicketOutcomes == {[kind |-> "return"]} \cup {Raises(e) : e \in ExcMsgs}

\* Mutants: the guard records the exception but leaves the flag alone; the
\* guard reports the build as passed.
GuardSuccessKept(bc) == bc.success
GuardSuccessTrue(bc) == TRUE

\* What the guard leaves in BuildContext.success.
GuardSuccess(bc) == FALSE

\* 'except Exception as e' of execute_comprehensive_build, up to its return;
\* jiraOut is what integrate_with_build does when it is called.
TopLevelGuard(jiraOut) ==
    /\ pc = "top_level_guard"
    /\ exceptions_collector' =
          Collect(exceptions_collector,
                 ExceptionRecord("build_execution",
                                 FormatExceptionDetails(exc.type, exc.msg)))
    /\ build_context' = [build_context EXCEPT !.success = GuardSuccess(build_context),
                                              !.error = exc.msg,
                                              !.exceptions = "collector"]
    /\ calls' = IF GuardTicketing(modules, config)
                THEN Append(calls, Call(modules["jira"], "jira",
                                        "integrate_with_build", jiraOut))
                ELSE calls
    /\ raised' = /\ GuardTicketing(modules, config)
                 /\ jiraOut.kind = "raise"
                 /\ ~TicketingCaught(jiraOut)
    /\ exc' = NoExc
    /\ pc' = "idle"
    /\ returned' = Append(returned, build_context')
    /\ UNCHANGED <<modules, config, results, buildCount, buildBase, lastOp,
                   args, ret, written, projects>>

----------------------------------------------------------------------------
(* Configuration manager: ConfigurationManager on one configuration directory *)

\* The fields of the package's AgentConfig and their defaults (the float
\* thresholds 80.0 and 8.0 as integers).
AgentConfigDefaults ==
    [project_name |-> "", project_root |-> "", project_type |-> "python",
     github_enabled |-> TRUE, github_token |-> "", github_repo |-> "",
     github_owner |-> "",
     jira_enabled |-> TRUE, jira_base_url |-> "", jira_email |-> "",
     jira_api_token |-> "", jira_project_key |-> "",
     confluence_enabled |-> TRUE, confluence_base_url |-> "",
     confluence_email |-> "", confluence_api_token |-> "",
     confluence_space_key |-> "",
     test_enabled |-> TRUE,
     test_types |-> <<"unit", "functional", "regression", "performance",
                      "security">>,
     test_timeout |-> 300, test_coverage_threshold |-> 80,
     code_review_enabled |-> TRUE, deduplication_enabled |-> TRUE,
     code_quality_threshold |-> 8,
     deployment_enabled |-> TRUE, deployment_environment |-> "staging",
     auto_deploy_on_success |-> FALSE,
     notifications_enabled |-> TRUE,
     notification_channels |-> <<"confluence", "jira">>]

AgentConfigFields == DOMAIN AgentConfigDefaults

\* AgentConfig(**data) raises TypeError for a keyword that is not a field.
AcceptsKeywords(data) == DOMAIN data \subseteq AgentConfigFields

\* AgentConfig(**data), for keywords it accepts.
AgentConfig(data) ==
    [k \in AgentConfigFields |->
        IF k \in DOMAIN data THEN data[k] ELSE AgentConfigDefaults[k]]

\* dict.update: d with the entries of e added or overwritten.
Update(d, e) ==
    [k \in DOMAIN d \cup DOMAIN e |-> IF k \in DOMAIN e THEN e[k] ELSE d[k]]

EmptyDict == [k \in {} |-> k]
None == "None"

\* "default_settings" of the global configuration file.
DefaultSettings ==
    [test_timeout |-> 300, test_coverage_threshold |-> 80,
     code_quality_threshold |-> 8, notifications_enabled |-> TRUE,
     auto_deploy_on_success |-> FALSE]

\* The templates file as _initialize_default_configs writes it (the keys
\* create_project_config reads).
Templates ==
    [python_web |->
        [project_type |-> "python",
         default_config |-> [test_types |-> <<"unit", "functional", "regression">>,
                             test_framework |-> "pytest", app_port |-> 5000]],
     javascript_web |->
        [project_type |-> "javascript",
         default_config |-> [test_types |-> <<"unit", "functional", "regression">>,
                             test_framework |-> "jest", app_port |-> 3000]]]

\* get_template_config(template_name): the template, or a value that is
\* false in 'if template_config' (None in the code, the empty dict here).
GetTemplateConfig(template) ==
    IF template \in DOMAIN Templates THEN Templates[template] ELSE EmptyDict

\* An Optional return value.
Some(v)    == [is_none |-> FALSE, value |-> v]
ReturnNone == [is_none |-> TRUE]

\* The keyword arguments create_project_config collects; detected is what
\* _detect_project_type finds in the project root.
ConfigData(name, root, template, custom, detected) ==
    LET base == [project_name |-> name, project_root |-> root,
                 project_type |-> "python"]
        withDefaults == Update(base, DefaultSettings)
        t == GetTemplateConfig(template)
        withTemplate ==
            IF template # None /\ DOMAIN t # {}
            THEN Update(Update(withDefaults, t.default_config),
                        [project_type |-> t.project_type])
            ELSE withDefaults
        withCustom == Update(withTemplate, custom)
    IN  IF template = None /\ detected # None
        THEN Update(withCustom, [project_type |-> detected])
        ELSE withCustom

\* save_project_config: the projects file with the entry of the name set.
SavedProjects(ps, name, cfg) == Update(ps, [k \in {name} |-> cfg])

\* create_project_config(project_name, project_root, template_name,
\* custom_config): the TypeError of AgentConfig(**config_data) leaves the
\* call before anything is saved.
CreateProjectConfig(name, root, template, custom, detected) ==
    /\ pc = "idle"
    /\ LET data == ConfigData(name, root, template, custom, detected)
       IN  IF AcceptsKeywords(data)
           THEN /\ projects' = SavedProjects(projects, name, AgentConfig(data))
                /\ ret' = Some(AgentConfig(data))
                /\ raised' = FALSE
           ELSE /\ projects' = projects
                /\ ret' = ReturnNone
                /\ raised' = TRUE
    /\ lastOp' = "create_project_config"
    /\ args' = [project_name |-> name, project_root |-> root,
                template_name |-> template, custom_config |-> custom]
    /\ calls' = <<>>
    /\ written' = Absent
    /\ UNCHANGED <<modules, config, results, exceptions_collector,
                   build_context, pc, exc, buildCount, buildBase, returned>>

\* load_project_config(project_name)
LoadProjectConfig(name) ==
    /\ pc = "idle"
    /\ ret' = IF name \in DOMAIN projects
              THEN Some(AgentConfig(projects[name]))
              ELSE ReturnNone
    /\ lastOp' = "load_project_config"
    /\ args' = [project_name |-> name]
    /\ calls' = <<>>
    /\ raised' = FALSE
    /\ written' = Absent
    /\ UNCHANGED <<modules, config, results, exceptions_collector,
                   build_context, pc, exc, buildCount, buildBase, returned,
                   projects>>

\* list_projects(): the keys of the projects file.
ListProjects ==
    /\ pc = "idle"
    /\ ret' = DOMAIN projects
    /\ lastOp' = "list_projects"
    /\ args' = <<>>
    /\ calls' = <<>>
    /\ raised' = FALSE
    /\ written' = Absent
    /\ UNCHANGED <<modules, config, results, exceptions_collector,
                   build_context, pc, exc, buildCount, buildBase, returned,
                   projects>>

\* Paths that exist in the file system the manager runs on.
ExistingPaths == {"."}

\* issues.append(text) under a condition.
Issue(cond, text) == IF cond THEN <<text>> ELSE <<>>

\* The list validate_project_config builds, in the order of its checks.
ValidateIssues(c) ==
    Issue(c.project_name = "", "Project name is required")
    \o (IF c.project_root = ""
        THEN <<"Project root is required">>
        ELSE Issue(c.project_root \notin ExistingPaths,
                   "Project root does not exist: " \o c.project_root))
    \o (IF c.github_enabled
        THEN Issue(c.github_token = "",
                   "GitHub token is required when GitHub integration is enabled")
             \o Issue(c.github_repo = "" \/ c.github_owner = "",
                   "GitHub repository and owner are required when GitHub integration is enabled")
        ELSE <<>>)
    \o (IF c.jira_enabled
        THEN Issue(c.jira_base_url = "",
                   "JIRA base URL is required when JIRA integration is enabled")
             \o Issue(c.jira_email = "" \/ c.jira_api_token = "",
                   "JIRA credentials are required when JIRA integration is enabled")
             \o Issue(c.jira_project_key = "",
                   "JIRA project key is required when JIRA integration is enabled")
        ELSE <<>>)
    \o (IF c.confluence_enabled
        THEN Issue(c.confluence_base_url = "",
                   "Confluence base URL is required when Confluence integration is enabled")
             \o Issue(c.confluence_email = "" \/ c.confluence_api_token = "",
                   "Confluence credentials are required when Confluence integration is enabled")
             \o Issue(c.confluence_space_key = "",
                   "Confluence space key is required when Confluence integration is enabled")
        ELSE <<>>)
    \o Issue(c.test_coverage_threshold < 0 \/ c.test_coverage_threshold > 100,
             "Test coverage threshold must be between 0 and 100")
    \o Issue(c.code_quality_threshold < 0 \/ c.code_quality_threshold > 10,
             "Code quality threshold must be between 0 and 10")

\* validate_project_config(config)
ValidateProjectConfig(cfg) ==
    /\ pc = "idle"
    /\ ret' = ValidateIssues(cfg)
    /\ lastOp' = "validate_project_config"
    /\ args' = cfg
    /\ calls' = <<>>
    /\ raised' = FALSE
    /\ written' = Absent
    /\ UNCHANGED <<modules, config, results, exceptions_collector,
                   build_context, pc, exc, buildCount, buildBase, returned,
                   projects>>

----------------------------------------------------------------------------
(* Build coordinator, the body after the main workflow call.                *)
(*                                                                          *)
(* The steps below are the lines of execute_comprehensive_build that follow *)
(* 'self.execute_all_workflows()'.  They run on an agent object that is     *)
(* given that method; the class in core_agent.py does not define it.        *)

\* An exception raised by a collaborator inside the build body.
BodyError(e) == [kind |-> "raise", type |-> "Exception", msg |-> e]

\* The workflow the main phase runs.
ConfiguredWorkflow == <<"code_review", "test_suite">>

\* workflow_results.get(name, {}): the mapping the module returned in the
\* main workflow phase, or the empty dict.
SubResult(rs, name) ==
    IF \E k \in 1..Len(rs) : rs[k].module_name = name /\ rs[k].success
    THEN (CHOOSE r \in {rs[k] : k \in 1..Len(rs)} :
              r.module_name = name /\ r.success).data
    ELSE <<>>

\* execute_all_workflows as the agent is given it: it runs the configured
\* workflow through execute_workflow; outs[k] is what the module at position
\* k does if it is invoked.  The two sub-results are stored in the context.
MainWorkflowPhase(outs) ==
    /\ pc = "execute_all_workflows"
    /\ results' = SessionAppend(results,
                      WorkflowAppends(modules, ConfiguredWorkflow, outs))
    /\ calls' = calls \o WorkflowCalls(modules, ConfiguredWorkflow, outs)
    /\ build_context' =
          [build_context EXCEPT
              !.test_results =
                  SubResult(WorkflowResults(modules, ConfiguredWorkflow, outs),
                            "test_suite"),
              !.code_review_results =
                  SubResult(WorkflowResults(modules, ConfiguredWorkflow, outs),
                            "code_review")]
    /\ pc' = "failure_check"
    /\ UNCHANGED <<modules, config, exceptions_collector, exc, buildCount,
                   buildBase, lastOp, args, ret, raised, written,
                   returned, projects>>

\* Mutant: the failure check looks only at the results of this build.
CheckedResultsOfBuild(rs, base) == SubSeq(rs, base + 1, Len(rs))

\* The results 'any(not result.success for result in self.results)' ranges
\* over: the whole session list.
CheckedResults(rs, base) == rs

AnyFailed(rs) == \E k \in 1..Len(rs) : ~rs[k].success

\* The exception report is produced.
Reported(cfg, collector) ==
    cfg.exception_reporting_enabled /\ collector # <<>>

\* 'if self.config.fail_build_on_exceptions', nested in the reporting block.
PolicyFails(cfg, collector) ==
    Reported(cfg, collector) /\ cfg.fail_build_on_exceptions

\* The failure check, the alias of the collector and the exception report
\* with the fail-on-exceptions policy.
FailureCheck ==
    /\ pc = "failure_check"
    /\ build_context' =
          [build_context EXCEPT
              !.success = /\ build_context.success
                          /\ ~AnyFailed(CheckedResults(results, buildBase))
                          /\ ~PolicyFails(config, exceptions_collector),
              !.exceptions = "collector"]
    /\ pc' = "update_jira"
    /\ UNCHANGED <<modules, config, results, exceptions_collector, exc,
                   buildCount, buildBase, lastOp, args, ret, calls, raised,
                   written, returned, projects>>

\* What integrate_with_build of the ticketing module may do in the body.
JiraOutcomes ==
    {Returns([success |-> TRUE]), Returns([success |-> FALSE])}
        \cup {Raises(e) : e \in ExcMsgs}

\* Mutant: tickets are reconciled whatever the build's success.
ReconcilesTicketsAlways(mods, bc) == mods["jira"] # NoModule

\* "if 'jira' in self.modules and self.build_context['success']"
ReconcilesTickets(mods, bc) == mods["jira"] # NoModule /\ bc.success

\* The ticket reconciliation step.  The call is in no try block of its own:
\* what it raises leaves the body for the top-level except clause.
UpdateJira(jiraOut) ==
    /\ pc = "update_jira"
    /\ IF ReconcilesTickets(modules, build_context)
       THEN /\ calls' = Append(calls, Call(modules["jira"], "jira",
                                           "integrate_with_build", jiraOut))
            /\ IF jiraOut.kind = "raise"
               THEN /\ exc' = BodyError(jiraOut.msg)
                    /\ pc' = "top_level_guard"
                    /\ UNCHANGED build_context
               ELSE /\ build_context' =
                          Update(build_context,
                                 [jira_integration |-> jiraOut.value])
                    /\ pc' = "post_confluence"
                    /\ UNCHANGED exc
       ELSE /\ pc' = "post_confluence"
            /\ UNCHANGED <<calls, build_context, exc>>
    /\ UNCHANGED <<modules, config, results, exceptions_collector,
                   buildCount, buildBase, lastOp, args, ret, raised,
                   written, returned, projects>>

\* What a call of the documentation or source-control module may do.
CallOutcomes ==
    {Returns([stored_files |-> <<"report.json">>])}
        \cup {Raises(e) : e \in ExcMsgs}

\* Publication of the test results and of the build report.
PostConfluence(out) ==
    /\ pc = "post_confluence"
    /\ IF modules["confluence"] # NoModule /\ build_context.test_results # <<>>
       THEN /\ calls' = Append(calls, Call(modules["confluence"], "confluence",
                                   "post_test_results_to_confluence", out))
            /\ IF out.kind = "raise"
               THEN /\ exc' = BodyError(out.msg)
                    /\ pc' = "top_level_guard"
                    /\ UNCHANGED build_context
               ELSE /\ build_context' =
                          Update(build_context,
                                 [confluence_test_results |-> out.value])
                    /\ pc' = "github_commit"
                    /\ UNCHANGED exc
       ELSE /\ pc' = "github_commit"
            /\ UNCHANGED <<calls, build_context, exc>>
    /\ UNCHANGED <<modules, config, results, exceptions_collector,
                   buildCount, buildBase, lastOp, args, ret, raised,
                   written, returned, projects>>

\* What _get_modified_files may return.
ModifiedFiles == {<<>>, <<"core_agent.py">>}

\* Mutant: the commit is made on failed builds too.
CommitsAlways(mods, bc) == mods["github"] # NoModule

\* "if 'github' in self.modules and self.build_context['success']"
Commits(mods, bc) == mods["github"] # NoModule /\ bc.success

\* The comprehensive commit of the modified files.
GithubCommit(files, out) ==
    /\ pc = "github_commit"
    /\ IF Commits(modules, build_context) /\ files # <<>>
       THEN /\ calls' = Append(calls, Call(modules["github"], "github",
                                           "create_comprehensive_commit", out))
            /\ IF out.kind = "raise"
               THEN /\ exc' = BodyError(out.msg)
                    /\ pc' = "top_level_guard"
                    /\ UNCHANGED build_context
               ELSE /\ build_context' =
                          Update(build_context, [github_commit |-> out.value])
                    /\ pc' = "github_artifacts"
                    /\ UNCHANGED exc
       ELSE /\ pc' = "github_artifacts"
            /\ UNCHANGED <<calls, build_context, exc>>
    /\ UNCHANGED <<modules, config, results, exceptions_collector,
                   buildCount, buildBase, lastOp, args, ret, raised,
                   written, returned, projects>>

\* "if 'github' in self.modules and self.build_context.get('test_results')"
StoresArtifacts(mods, bc) ==
    mods["github"] # NoModule /\ bc.test_results # <<>>

\* Storage of the test results, the exceptions and the context as artifacts.
GithubArtifacts(out) ==
    /\ pc = "github_artifacts"
    /\ IF StoresArtifacts(modules, build_context)
       THEN /\ calls' = Append(calls, Call(modules["github"], "github",
                                   "store_test_artifacts_in_repository", out))
            /\ IF out.kind = "raise"
               THEN /\ exc' = BodyError(out.msg)
                    /\ pc' = "top_level_guard"
                    /\ UNCHANGED build_context
               ELSE /\ build_context' =
                          [build_context EXCEPT
                              !.artifacts = Get(out.value, "stored_files", <<>>)]
                    /\ pc' = "post_build_actions"
                    /\ UNCHANGED exc
       ELSE /\ pc' = "post_build_actions"
            /\ UNCHANGED <<calls, build_context, exc>>
    /\ UNCHANGED <<modules, config, results, exceptions_collector,
                   buildCount, buildBase, lastOp, args, ret, raised,
                   written, returned, projects>>

\* What each helper of the post-build phase does: it finishes or something
\* in it raises.
HelperOutcomes == {[kind |-> "return"]} \cup {Raises(e) : e \in ExcMsgs}

\* _generate_comprehensive_documentation and _add_comprehensive_code_comments
\* wrap their whole body in 'try / except Exception' and log: nothing they
\* raise leaves them.
HelperPropagates(out) == FALSE

\* The annotation helper is called, and it asks the source-control module to
\* annotate a file.
Annotates(mods, cfg, docOut) ==
    /\ ~(cfg.comprehensive_documentation /\ HelperPropagates(docOut))
    /\ cfg.auto_add_comments
    /\ mods["github"] # NoModule

\* The record the 'except' of _run_post_build_actions appends, if an
\* exception reaches it.
PostBuildRecords(mods, cfg, docOut, noteOut) ==
    IF cfg.comprehensive_documentation /\ HelperPropagates(docOut)
    THEN <<ExceptionRecord("post_build_actions",
                           FormatExceptionDetails("Exception", docOut.msg))>>
    ELSE IF Annotates(mods, cfg, docOut) /\ HelperPropagates(noteOut)
         THEN <<ExceptionRecord("post_build_actions",
                                FormatExceptionDetails("Exception", noteOut.msg))>>
         ELSE <<>>

\* _run_post_build_actions, then the final log line and the return of the
\* context.  docOut is what documentation generation does, noteOut what the
\* source-control module does when asked to annotate a file.
PostBuildActions(docOut, noteOut) ==
    /\ pc = "post_build_actions"
    /\ calls' = IF Annotates(modules, config, docOut)
                THEN Append(calls, Call(modules["github"], "github",
                                "add_comprehensive_code_comments", noteOut))
                ELSE calls
    /\ exceptions_collector' =
          exceptions_collector \o PostBuildRecords(modules, config, docOut, noteOut)
    /\ pc' = "idle"
    /\ returned' = Append(returned, build_context)
    /\ UNCHANGED <<modules, config, results, build_context, exc, buildCount,
                   buildBase, lastOp, args, ret, raised, written, projects>>

----------------------------------------------------------------------------
(* Specifications *)

\* The arguments explored for the configuration manager.
ProjectNames  == {"project1", "project2"}
TemplateArgs  == {None, "python_web", "no_such_template"}
CustomConfigs == {EmptyDict, [test_timeout |-> 60], [project_name |-> "renamed"]}
DetectedTypes == {None, "javascript"}

\* The configurations handed to validate_project_config: AgentConfig built
\* from these keywords, every other field at its default.
ValidatedKeywords ==
    [project_name : {"", "valid-project"},
     project_root : {"", ".", "/nonexistent"},
     test_coverage_threshold : {80, 150},
     code_quality_threshold : {8, 11},
     github_enabled : BOOLEAN,
     github_token : {"", "token"},
     jira_enabled : BOOLEAN,
     confluence_enabled : BOOLEAN]

\* The project store of one configuration manager.
NextConfig ==
    \/ \E name \in ProjectNames, template \in TemplateArgs,
          custom \in CustomConfigs, detected \in DetectedTypes :
          CreateProjectConfig(name, ".", template, custom, detected)
    \/ \E name \in ProjectNames : LoadProjectConfig(name)
    \/ ListProjects
SpecConfig == InitDefault /\ [][NextConfig]_vars

\* The validator, which reads nothing but its argument.
NextValidate ==
    \E kw \in ValidatedKeywords : ValidateProjectConfig(AgentConfig(kw))
SpecValidate == InitDefault /\ [][NextValidate]_vars

\* Registrations of the modules ids under the names.
RegistryNext(names, ids) ==
    \E name \in names, m \in ids, v \in {"true", "false", "raise"} :
        RegisterModule(name, m, v)

\* Runner and summary operations on workflows over the names.
RunnerNext(names) ==
    \/ \E name \in names, out \in ExecOutcomes : ExecuteModule(name, out)
    \/ \E W \in Workflows(names) : \E outs \in [1..Len(W) -> ExecOutcomes] :
          ExecuteWorkflow(W, outs)
    \/ GetExecutionSummary
    \/ \E io \in {"ok", "ioerror"} : SaveResults(io)

BuildNextWithin(limit) ==
    \/ BuildStartWithin(limit)
    \/ \E out \in ExecOutcomes : PreCommitCodeReview(out)
    \/ \E out \in ExecOutcomes : PreCommitTests(out)
    \/ ExecuteAllWorkflows
    \/ \E jiraOut \in TicketOutcomes : TopLevelGuard(jiraOut)

BuildNext == BuildNextWithin(MaxBuilds)

\* A session of an agent with the default configuration that mixes all its
\* operations: registrations under every name, the runner on one of them,
\* and builds.
SessionNames == {"code_review"}
NextSession ==
    \/ RegistryNext(Names, {"m1"})
    \/ RunnerNext(SessionNames)
    \/ BuildNext
SpecSession == InitDefault /\ [][NextSession]_vars

\* A session in which a build is followed by further operations, one more
\* build among them: one name, one module object, the default configuration.
RebuildNames == {"code_review"}
NextRebuild ==
    \/ RegistryNext(RebuildNames, {"m1"})
    \/ RunnerNext(RebuildNames)
    \/ BuildNextWithin(MaxBuilds + 1)
SpecRebuild == InitDefault /\ [][NextRebuild]_vars

\* Registry and workflow runner of an agent with the default configuration.
\* The runner looks only at which names are registered, and treats every
\* name alike: two names and one module object.
RunnerNames == {"code_review", "test_suite"}
NextRunner == RegistryNext(RunnerNames, {"m1"}) \/ RunnerNext(RunnerNames)
SpecRunner == InitDefault /\ [][NextRunner]_vars

\* Registry and build coordinator, for every configuration.
NextBuild == RegistryNext(Names, ModuleIds) \/ BuildNext
SpecBuild == Init /\ [][NextBuild]_vars

\* The build body is straight-line code: once entered, its next step runs
\* (every collaborator call returns or raises).
BuildSteps ==
    \/ \E out \in ExecOutcomes : PreCommitCodeReview(out)
    \/ \E out \in ExecOutcomes : PreCommitTests(out)
    \/ ExecuteAllWorkflows
    \/ \E jiraOut \in TicketOutcomes : TopLevelGuard(jiraOut)

SpecBuildFair == SpecBuild /\ WF_vars(BuildSteps)

\* The steps of the build of an agent that is given execute_all_workflows.
BodyBuildNext ==
    \/ BuildStart
    \/ \E out \in ExecOutcomes : PreCommitCodeReview(out)
    \/ \E out \in ExecOutcomes : PreCommitTests(out)
    \/ \E outs \in [1..Len(ConfiguredWorkflow) -> ExecOutcomes] :
          MainWorkflowPhase(outs)
    \/ FailureCheck
    \/ \E jiraOut \in JiraOutcomes : UpdateJira(jiraOut)
    \/ \E out \in CallOutcomes : PostConfluence(out)
    \/ \E files \in ModifiedFiles, out \in CallOutcomes : GithubCommit(files, out)
    \/ \E out \in CallOutcomes : GithubArtifacts(out)
    \/ \E docOut \in HelperOutcomes, noteOut \in HelperOutcomes :
          PostBuildActions(docOut, noteOut)
    \/ \E jiraOut \in TicketOutcomes : TopLevelGuard(jiraOut)

\* Such an agent is set up and then builds: the quality, ticketing and
\* source-control modules are registered before the first build.
BodyNames == {"code_review", "test_suite", "jira", "github"}
BodyConfigs == {c \in Configs : c.auto_create_bug_tickets}
NextBody ==
    \/ buildCount = 0 /\ RegistryNext(BodyNames, {"m1"})
    \/ BodyBuildNext
SpecBody == InitAgent(BodyConfigs) /\ [][NextBody]_vars

\* Such an agent without a ticketing module and with the fail-on-exceptions
\* policy off, whose runner is used on one of its modules before the build.
BodySessionNames == {"code_review", "test_suite", "github"}
BodySessionConfigs ==
    {c \in BodyConfigs :
        c.exception_reporting_enabled /\ ~c.fail_build_on_exceptions}
NextBodySession ==
    \/ buildCount = 0 /\ RegistryNext(BodySessionNames, {"m1"})
    \/ \E out \in ExecOutcomes : ExecuteModule("code_review", out)
    \/ BodyBuildNext
SpecBodySession == InitAgent(BodySessionConfigs) /\ [][NextBodySession]_vars

----------------------------------------------------------------------------
(* Properties of the workflow runner and the registry (SpecRunner) *)

WorkflowReturned == lastOp = "execute_workflow" /\ ~raised

\* Position p of the workflow just run was reached with every earlier module
\* registered and returning normally.
ReachedCleanly(p) ==
    \A q \in 1..(p - 1) :
        /\ modules[args[q]] # NoModule
        /\ q <= Len(calls)
        /\ calls[q].out.kind = "return"

\* C1: short-circuit.  After execute_workflow(W), a failed result (module
\* raised or not registered) is the last entry of the returned list, it is
\* the result of the module at its position, and every execute invocation
\* made by the call belongs to a position up to that one: no module after
\* the failed one was invoked.
C1_ShortCircuit ==
    WorkflowReturned =>
        \A k \in 1..Len(ret) :
            ~ret[k].success =>
                /\ k = Len(ret)
                /\ ret[k].module_name = args[k]
                /\ \A c \in 1..Len(calls) :
                      c <= k /\ calls[c].name = args[c] /\ calls[c].op = "execute"

\* A workflow failed at a position that is followed by a registered module.
C1_Witness ==
    /\ WorkflowReturned
    /\ \E k \in 1..Len(ret) :
          /\ ~ret[k].success
          /\ k < Len(args)
          /\ modules[args[k + 1]] # NoModule

\* C2: execute_module and execute_workflow return normally when a module's
\* execute raises, and the raising module has a result with success = false
\* whose errors carry the exception's string.
C2_NoPropagation ==
    lastOp \in {"execute_module", "execute_workflow"} =>
        /\ ~raised
        /\ \A c \in 1..Len(calls) :
              calls[c].out.kind = "raise" =>
                  \E k \in 1..Len(ret) :
                      /\ ret[k].module_name = calls[c].name
                      /\ ~ret[k].success
                      /\ \E i \in 1..Len(ret[k].errors) :
                            ret[k].errors[i] =
                                "Module execution failed: " \o calls[c].out.msg

\* A module raised in the middle of a workflow and the workflow returned.
C2_Witness ==
    /\ WorkflowReturned
    /\ Len(calls) = 2
    /\ calls[1].out.kind = "return"
    /\ calls[2].out.kind = "raise"

\* C8 as stated, with i counted from 0 as in the spec ("indices 0..i-1
\* succeeded"): if W[i] is unregistered and the run has not halted earlier,
\* execute_workflow returns exactly i results.  (p = i + 1 is the position
\* counted from 1.)
C8_ReturnsExactlyI ==
    WorkflowReturned =>
        \A p \in 1..Len(args) :
            (modules[args[p]] = NoModule /\ ReachedCleanly(p)) =>
                Len(ret) = p - 1

\* C8 amended: if W[i] (i counted from 0) is unregistered and the run has
\* not halted earlier, execute_workflow returns exactly i + 1 results: the i
\* successful ones followed by the result for W[i], which has success =
\* false and the "not found" error.
C8_NotFoundIsLastResult ==
    WorkflowReturned =>
        \A p \in 1..Len(args) :
            (modules[args[p]] = NoModule /\ ReachedCleanly(p)) =>
                /\ Len(ret) = p
                /\ \A q \in 1..(p - 1) : ret[q].success
                /\ ~ret[p].success
                /\ ret[p].module_name = args[p]
                /\ ret[p].errors = <<"Module '" \o args[p] \o "' not found">>

\* A workflow whose second module is missing ran its first module.
C8_Witness ==
    /\ WorkflowReturned
    /\ Len(args) >= 2
    /\ modules[args[2]] = NoModule
    /\ ReachedCleanly(2)
    /\ Len(ret) = 2

\* C9: a register_module(name, m) step calls m.validate_config() exactly
\* once; when it answers true the registry afterwards is the old one with
\* name mapped to m, when it answers false the registry is unchanged; in
\* both cases nothing is raised.
C9_RegistrationGated ==
    [][lastOp' = "register_module" =>
          /\ Len(calls') = 1
          /\ calls'[1].op = "validate_config"
          /\ calls'[1].module = args'.module
          /\ calls'[1].out = "true" =>
                /\ modules' = [modules EXCEPT ![args'.name] = args'.module]
                /\ ~raised'
          /\ calls'[1].out = "false" =>
                /\ modules' = modules
                /\ ~raised']_vars

\* A registration was refused while another module held the name, and that
\* module is still there.
C9_Witness ==
    /\ lastOp = "register_module"
    /\ calls[1].out = "false"
    /\ ~raised
    /\ modules[args.name] \notin {NoModule, args.module}

\* Every module of the workflow just run is registered, and every execute
\* the run invoked returned.
AllRegisteredAndSucceeded ==
    /\ \A k \in 1..Len(args) : modules[args[k]] # NoModule
    /\ \A c \in 1..Len(calls) : calls[c].out.kind = "return"

\* C20: execute_workflow(W) invokes the modules in list order, one execute
\* per position visited, and the module names of the returned results are
\* a prefix of W: at most Len(W) results, the k-th for W[k], every one but
\* possibly the last successful; when every W[k] is registered and
\* succeeds there are exactly Len(W) results, all successful.
C20_ResultsArePrefixOfWorkflow ==
    WorkflowReturned =>
        /\ Len(ret) <= Len(args)
        /\ \A k \in 1..Len(ret) : ret[k].module_name = args[k]
        /\ \A k \in 1..(Len(ret) - 1) : ret[k].success
        /\ Len(calls) <= Len(ret)
        /\ \A c \in 1..Len(calls) :
              /\ calls[c].op = "execute"
              /\ calls[c].name = args[c]
              /\ calls[c].module = modules[args[c]]
        /\ AllRegisteredAndSucceeded =>
              /\ Len(ret) = Len(args)
              /\ Len(calls) = Len(args)
              /\ \A k \in 1..Len(ret) : ret[k].success

\* The workflow code_review -> test_suite ran both modules, in that order,
\* and returned two successful results.
C20_Witness ==
    /\ WorkflowReturned
    /\ args = <<"code_review", "test_suite">>
    /\ Len(calls) = 2
    /\ calls[1].name = "code_review"
    /\ calls[2].name = "test_suite"
    /\ Len(ret) = 2
    /\ ret[1].success
    /\ ret[2].success

\* The result was built for a name that is in the registry.
OfRegistered(r) == modules[r.module_name] # NoModule

\* C11: an execute_workflow step appends to the session list the results of
\* the registered modules it invoked (successful or failed by exception),
\* in the order in which it returns them; when every module it invoked is
\* registered, the session list afterwards is the previous list followed by
\* exactly the returned results.
C11_WorkflowAppendsReturned ==
    [][(lastOp' = "execute_workflow" /\ ~raised') =>
          /\ IsPrefix(results, results')
          /\ SubSeq(results', Len(results) + 1, Len(results')) =
                SelectSeq(ret', OfRegistered)
          /\ (\A k \in 1..Len(ret') : OfRegistered(ret'[k]))
                => results' = results \o ret']_vars

\* A workflow on a non-empty session whose registered module raised: its
\* failed result is the one returned and the last of the session.
C11_Witness ==
    /\ WorkflowReturned
    /\ Len(ret) = 1
    /\ Len(calls) = 1
    /\ calls[1].out.kind = "raise"
    /\ ~ret[1].success
    /\ Len(results) = 2
    /\ results[2] = ret[1]

\* C12: when execute_module, called directly or by a workflow, is given a
\* name that is not in the registry, the failed "not found" result it
\* returns is the last entry of the session list and is counted by the
\* execution summary.
C12_NotFoundInSession ==
    (/\ lastOp \in {"execute_module", "execute_workflow"}
     /\ ~raised
     /\ ret # <<>>
     /\ ~OfRegistered(ret[Len(ret)]))
        => /\ results # <<>>
           /\ results[Len(results)] = ret[Len(ret)]
           /\ ExecutionSummary(results).failed_modules >= 1

----------------------------------------------------------------------------
(* Properties of the build coordinator (SpecBuild, SpecBuildFair) *)

BuildRunning  == pc # "idle"
BuildReturned == lastOp = "execute_comprehensive_build" /\ pc = "idle"

\* The top-level guard caught an exception in the build that returned last:
\* only the guard sets the 'error' key.
GuardFired == build_context.error # Absent

\* No result appended to the session list since the build started is a
\* failure.
NoModuleFailedInBuild ==
    \A k \in (buildBase + 1)..Len(results) : results[k].success

\* C3: execute_comprehensive_build never raises to its caller: a call that
\* was entered ends, it ends by returning, and what it returns is the
\* BuildContext of this call with a boolean success field.
C3_BuildAlwaysReturns ==
    /\ [](BuildReturned =>
            /\ ~raised
            /\ build_context.build_id = buildCount
            /\ build_context.success \in BOOLEAN)
    /\ (BuildRunning ~> BuildReturned)

\* A build returned although the ticketing call of its guard raised.
C3_Witness ==
    /\ BuildReturned
    /\ ~raised
    /\ Len(calls) > 0
    /\ calls[Len(calls)].op = "integrate_with_build"
    /\ calls[Len(calls)].out.kind = "raise"

C5_SuccessMonotone ==
    [][/\ buildCount' # buildCount => build_context'.success
       /\ (buildCount' = buildCount /\ buildCount > 0 /\ ~build_context.success)
             => ~build_context'.success]_vars

\* A returned context that failed is still failed after a later operation.
C5_Witness ==
    /\ buildCount > 0
    /\ pc = "idle"
    /\ lastOp = "register_module"
    /\ ~build_context.success

AllCollaboratorsSucceeded ==
    \A c \in 1..Len(calls) :
        /\ calls[c].out.kind = "return"
        /\ calls[c].op = "execute" => Get(calls[c].out.value, "success", TRUE)

\* C7: a successful build is reachable, stated for the run that has to
\* reach it: the first build of a fresh agent (no result in the session yet)
\* whose registered code-review and test-suite modules, and every other
\* collaborator it invokes, succeed returns success = true.
C7_CleanBuildSucceeds ==
    (/\ BuildReturned
     /\ buildCount = 1
     /\ results = <<>>
     /\ modules["code_review"] # NoModule
     /\ modules["test_suite"] # NoModule
     /\ AllCollaboratorsSucceeded)
        => build_context.success

\* The step is the code review of the pre-commit phase returning a mapping
\* with success = false.
CodeReviewReportsFailure ==
    /\ pc = "pre_commit_code_review"
    /\ Len(calls') = Len(calls) + 1
    /\ calls'[Len(calls')].out.kind = "return"
    /\ ~Get(calls'[Len(calls')].out.value, "success", TRUE)

\* C13: a failed pre-check does not halt the build.  The step in which the
\* code review returns success = false appends exactly one ExceptionRecord,
\* with component "pre_commit_code_review", and passes control to the
\* test-suite pre-check; that step invokes the test suite when one is
\* registered and passes control to the main workflow phase, which the
\* build always reaches.
C13_PreCheckFailureDoesNotHalt ==
    /\ [][CodeReviewReportsFailure =>
            /\ Len(exceptions_collector') = Len(exceptions_collector) + 1
            /\ IsPrefix(exceptions_collector, exceptions_collector')
            /\ exceptions_collector'[Len(exceptions_collector')].component =
                  "pre_commit_code_review"
            /\ pc' = "pre_commit_tests"]_vars
    /\ [][(pc = "pre_commit_tests" /\ pc' # pc) =>
            /\ pc' = "execute_all_workflows"
            /\ modules["test_suite"] # NoModule =>
                  /\ Len(calls') = Len(calls) + 1
                  /\ calls'[Len(calls')].name = "test_suite"
                  /\ calls'[Len(calls')].op = "execute"]_vars
    /\ (pc = "pre_commit_tests" ~> pc = "execute_all_workflows")

\* The build stands at the main workflow phase after a code review that
\* reported "lint failed" and a test-suite pre-check that ran.
C13_Witness ==
    /\ pc = "execute_all_workflows"
    /\ Len(calls) = 2
    /\ calls[1].name = "code_review"
    /\ calls[1].out = Returns(MapFailed)
    /\ calls[2].name = "test_suite"
    /\ Len(exceptions_collector) >= 1
    /\ exceptions_collector[1] =
          ExceptionRecord("pre_commit_code_review", ErrorText("lint failed"))

\* C14: save/execute/restore.  config.test_types after a step of the
\* pre-commit phase is what it was before the step, whether the test
\* suite's execute returned success, returned failure or raised.
C14_TestTypesRestored ==
    [][(pc \in {"pre_commit_code_review", "pre_commit_tests"})
          => config'.test_types = config.test_types]_vars

\* C15: the step of the top-level guard, taken when an exception escaped
\* the build body, appends exactly one ExceptionRecord, with component
\* "build_execution", sets success to false, calls the ticketing
\* integration once if a 'jira' module is registered and
\* auto_create_bug_tickets is set and not at all otherwise, and returns the
\* BuildContext of the call even when the ticketing call raised.
C15_GuardRecordsAndReturns ==
    [][(pc = "top_level_guard" /\ pc' # pc) =>
          /\ Len(exceptions_collector') = Len(exceptions_collector) + 1
          /\ IsPrefix(exceptions_collector, exceptions_collector')
          /\ exceptions_collector'[Len(exceptions_collector')].component =
                "build_execution"
          /\ ~build_context'.success
          /\ build_context'.build_id = build_context.build_id
          /\ pc' = "idle"
          /\ ~raised'
          /\ IF modules["jira"] # NoModule /\ config.auto_create_bug_tickets
             THEN /\ Len(calls') = Len(calls) + 1
                  /\ IsPrefix(calls, calls')
                  /\ calls'[Len(calls')].op = "integrate_with_build"
                  /\ calls'[Len(calls')].module = modules["jira"]
             ELSE calls' = calls]_vars

\* A build without pre-commit checks was caught by the guard, whose
\* ticketing call raised: one record, a failed context, a normal return.
C15_Witness ==
    /\ BuildReturned
    /\ ~config.pre_commit_checks
    /\ config.auto_create_bug_tickets
    /\ Len(exceptions_collector) = 1
    /\ exceptions_collector[1].component = "build_execution"
    /\ Len(calls) = 1
    /\ calls[1].op = "integrate_with_build"
    /\ calls[1].out.kind = "raise"
    /\ ~build_context.success
    /\ ~raised

----------------------------------------------------------------------------
(* Properties of a whole session (SpecSession) *)

\* What a caller reads in a context it holds, given the collector's list.
Reads(c, collector) ==
    [c EXCEPT !.exceptions = IF c.exceptions = "collector" THEN collector
                             ELSE <<>>]

----------------------------------------------------------------------------
(* Properties of the configuration manager (SpecConfig) *)

\* C18: the project store.  After a create_project_config call the name it
\* was given is a key of the projects file (what list_projects returns);
\* load_project_config of every stored name returns a configuration whose
\* project_name is that name; list_projects returns every stored name; and
\* load_project_config of a name never stored returns None.
C18_ProjectStoreKeepsProjects ==
    /\ lastOp = "create_project_config" => args.project_name \in DOMAIN projects
    /\ \A name \in DOMAIN projects :
          AgentConfig(projects[name]).project_name = name
    /\ lastOp = "list_projects" => ret = DOMAIN projects
    /\ lastOp = "load_project_config" =>
          (ret.is_none <=> args.project_name \notin DOMAIN projects)

\* Every field the claim does not name has its AgentConfig default.
OtherFieldsAtDefault(c) ==
    \A k \in AgentConfigFields \ {"project_name", "project_root",
                                   "test_coverage_threshold",
                                   "code_quality_threshold"} :
        c[k] = AgentConfigDefaults[k]

\* C19: validate_project_config returns an empty issue list for a
\* configuration with a non-empty project name, an existing project root,
\* thresholds in range and every other field at its AgentConfig default,
\* and a non-empty list when the name is empty, the root does not exist or
\* the coverage threshold is above 100.
C19_ValidationVerdict ==
    lastOp = "validate_project_config" =>
        /\ (/\ args.project_name # ""
            /\ args.project_root \in ExistingPaths
            /\ args.test_coverage_threshold \in 0..100
            /\ args.code_quality_threshold \in 0..10
            /\ OtherFieldsAtDefault(args)) => ret = <<>>
        /\ (\/ args.project_name = ""
            \/ args.project_root \notin ExistingPaths
            \/ args.test_coverage_threshold > 100) => ret # <<>>

----------------------------------------------------------------------------
(* Properties of a whole session, continued (SpecSession) *)

\* The rate is the quotient of successful * 100 by total.
IsRateOf(rate, successful, total) ==
    /\ rate.den # 0
    /\ IF total = 0 THEN rate.num = 0
       ELSE rate.num * total = successful * 100 * rate.den

\* The summary describes the session list.
DescribesSession(summary) ==
    /\ summary.total_modules = Len(results)
    /\ Len(summary.results) = summary.total_modules
    /\ summary.successful_modules =
          Cardinality({k \in 1..Len(results) : results[k].success})
    /\ summary.successful_modules + summary.failed_modules =
          summary.total_modules
    /\ IsRateOf(summary.success_rate, summary.successful_modules,
                summary.total_modules)

C16_ReturnedContextFrozen ==
    [][\A i \in 1..Len(returned) :
          Reads(returned'[i], exceptions_collector') =
              Reads(returned[i], exceptions_collector)]_vars

\* C10: the session results list is append-only: in every step of every
\* operation the old list is a prefix of the new one.
C10_ResultsAppendOnly == [][IsPrefix(results, results')]_vars

\* Results were appended before and after a build, and the summary was taken.
C10_Witness ==
    /\ buildCount > 0
    /\ buildBase > 0
    /\ Len(results) > buildBase
    /\ lastOp = "get_execution_summary"

----------------------------------------------------------------------------
(* Properties of the registry over a whole session (SpecSession) *)

\* C25: the registry never loses an entry and is read-only during
\* execution: in every step a registered name stays registered, and the
\* mapping changes only in a step of register_module; no step of
\* execute_module, execute_workflow or execute_comprehensive_build changes it.
C25_RegistryOnlyGrows ==
    [][/\ \A n \in DOMAIN modules :
             modules[n] # NoModule => modules'[n] # NoModule
       /\ (modules' # modules) =>
             (pc = "idle" /\ pc' = "idle" /\ lastOp' = "register_module")]_vars

\* A build was run and the runner was used with a module registered, and
\* then a registration under a registered name was rejected: the entry is
\* still there.
C25_Witness ==
    /\ buildCount > 0
    /\ Len(results) > 0
    /\ lastOp = "register_module"
    /\ calls[1].out # "true"
    /\ modules[args.name] # NoModule

----------------------------------------------------------------------------
(* Properties of the exception collector over several builds (SpecRebuild) *)

\* C26: the exception record list is append-only for the whole session: in
\* every step, the start of a build included, the old list is a prefix of the
\* new one; and the BuildContext a build returns reads the collector
\* itself, so that the 'exceptions' of a later build starts with every
\* record the earlier builds collected.
C26_CollectorAppendOnly ==
    [][/\ IsPrefix(exceptions_collector, exceptions_collector')
       /\ (pc # "idle" /\ pc' = "idle") =>
             /\ build_context'.exceptions = "collector"
             /\ ContextExceptions(build_context)' = exceptions_collector']_vars

\* The second build of a session returned, and its 'exceptions' begins with
\* a record of the first build and ends with its own.
C26_Witness ==
    /\ pc = "idle"
    /\ buildCount = 2
    /\ Len(returned) = 2
    /\ Len(exceptions_collector) > 2
    /\ exceptions_collector[1].component = "pre_commit_checks"
    /\ exceptions_collector[Len(exceptions_collector)].component = "build_execution"
    /\ \E k \in 1..(Len(exceptions_collector) - 1) :
          exceptions_collector[k].component = "build_execution"

----------------------------------------------------------------------------
(* Properties of the runner's success flag (SpecRunner) *)

\* C27: the runner derives success only from whether execute raised.  After
\* execute_module or execute_workflow, the result of every module invoked is
\* successful exactly if its execute returned, whatever the returned mapping
\* says, and carries that mapping as data; and in a workflow a module whose
\* mapping has success = false does not end the loop: the next position is
\* visited, and its module, if registered, is invoked.
C27_SuccessOnlyFromRaise ==
    (lastOp \in {"execute_module", "execute_workflow"} /\ ~raised) =>
        \A k \in 1..Len(calls) :
            /\ ret[k].success = (calls[k].out.kind = "return")
            /\ calls[k].out.kind = "return" => ret[k].data = calls[k].out.value
            /\ (/\ lastOp = "execute_workflow"
                /\ calls[k].out = Returns(MapFailed)
                /\ k < Len(args)) =>
                  /\ Len(ret) > k
                  /\ modules[args[k + 1]] # NoModule =>
                        /\ Len(calls) > k
                        /\ calls[k + 1].name = args[k + 1]

\* A workflow of two registered modules whose first module returned a
\* mapping with success = false: its result is successful and the second
\* module was invoked.
C27_Witness ==
    /\ WorkflowReturned
    /\ Len(args) = 2
    /\ Len(calls) = 2
    /\ calls[1].out = Returns(MapFailed)
    /\ ret[1].success
    /\ ret[1].data = MapFailed

----------------------------------------------------------------------------
(* Properties of the pre-commit phase (SpecBuild) *)

CodeReviewRaised(c) ==
    c.name = "code_review" /\ c.op = "execute" /\ c.out.kind = "raise"

\* C29: when the code review's execute raises during the pre-commit phase,
\* the exception does not reach the top-level guard: that step appends
\* exactly one record, with component "pre_commit_checks", leaves the
\* BuildContext alone, has no exception in flight, and passes control to the
\* main workflow phase; and no build in which the code review raised has
\* invoked the test suite's pre-check.
C29_CodeReviewRaiseSkipsTests ==
    [][/\ (/\ pc = "pre_commit_code_review"
           /\ Len(calls') = Len(calls) + 1
           /\ CodeReviewRaised(calls'[Len(calls')])) =>
              /\ exceptions_collector' =
                    exceptions_collector \o
                       <<ExceptionRecord("pre_commit_checks",
                            FormatExceptionDetails("Exception",
                                calls'[Len(calls')].out.msg))>>
              /\ pc' = "execute_all_workflows"
              /\ exc' = NoExc
              /\ build_context' = build_context
              /\ results' = results
       /\ (lastOp' = "execute_comprehensive_build" /\
           \E i \in 1..Len(calls') : CodeReviewRaised(calls'[i])) =>
              \A j \in 1..Len(calls') : calls'[j].name # "test_suite"]_vars

\* A build whose code review raised, with a test suite registered, is past
\* its pre-commit phase.
C29_Witness ==
    /\ lastOp = "execute_comprehensive_build"
    /\ pc = "idle"
    /\ modules["test_suite"] # NoModule
    /\ Len(calls) > 0
    /\ CodeReviewRaised(calls[1])
    /\ exceptions_collector[1].component = "pre_commit_checks"
    /\ Len(exceptions_collector) = 2

----------------------------------------------------------------------------
(* Properties of the build body after the main workflow call               *)
(* (SpecBody, SpecBodySession)                                              *)

\* C21: the failure check of a build looks at the whole session history.  If
\* the session results list holds an unsuccessful ExecutionResult when the
\* check runs, one produced before this build started included, the check
\* leaves success = false, and the build returns success = false.
C21_FailureCheckSeesSession ==
    /\ [][(pc = "failure_check" /\ AnyFailed(results)) =>
              ~build_context'.success]_vars
    /\ [](BuildReturned /\ AnyFailed(results) =>
              /\ ~build_context.success
              /\ ~returned[Len(returned)].success)

\* A build returned from its last line, not from the guard, with
\* success = false, although every module it ran succeeded: the one failed
\* result of the session dates from before the build.
C21_Witness ==
    /\ BuildReturned
    /\ ~GuardFired
    /\ buildBase > 0
    /\ ~results[1].success
    /\ Len(results) > buildBase
    /\ NoModuleFailedInBuild
    /\ ~build_context.success

PreCommitRecorded ==
    \E k \in 1..Len(exceptions_collector) :
        exceptions_collector[k].component \in
            {"pre_commit_checks", "pre_commit_code_review", "pre_commit_tests"}

\* C28: the pre-commit phase bypasses the runner.  Each of its steps calls
\* execute on the registered module itself and leaves the session results
\* list as it was; and the failure check of the build, when no result of the
\* session list is a failure and the fail-on-exceptions policy does not
\* apply, leaves success as it was, whatever the pre-checks recorded.
C28_PreCommitBypassesRunner ==
    [][/\ (pc \in {"pre_commit_code_review", "pre_commit_tests"}) =>
             /\ results' = results
             /\ \A k \in (Len(calls) + 1)..Len(calls') :
                   /\ calls'[k].op = "execute"
                   /\ calls'[k].module = modules[calls'[k].name]
       /\ (/\ pc = "failure_check"
           /\ ~AnyFailed(results)
           /\ ~PolicyFails(config, exceptions_collector)) =>
             build_context'.success = build_context.success]_vars

\* A build whose code-review pre-check reported failure, and so left a
\* record, returned from its last line with success = true.
C28_Witness ==
    /\ BuildReturned
    /\ ~GuardFired
    /\ build_context.success
    /\ PreCommitRecorded
    /\ Len(calls) > 0
    /\ calls[1].name = "code_review"
    /\ calls[1].out = Returns(MapFailed)
    /\ Len(results) > buildBase

\* The exception the guard is about to handle was raised by the ticketing
\* call of the reconciliation step.
TicketingRaisedInBody ==
    /\ pc = "top_level_guard"
    /\ Len(calls) > 0
    /\ calls[Len(calls)].op = "integrate_with_build"
    /\ calls[Len(calls)].out.kind = "raise"

\* C22: the ticket reconciliation step never overrides success.  The
\* ticketing module is called in that step only if 'jira' is registered and
\* success is true; what it returns is stored under 'jira_integration'; and
\* success has the same value after the step as before, whether the call
\* reports success = false or raises, the handling of what it raised
\* included.
C22_TicketingNeverOverridesSuccess ==
    [][/\ (pc = "update_jira") =>
             /\ (calls' # calls) =>
                   /\ modules["jira"] # NoModule
                   /\ build_context.success
                   /\ calls' = Append(calls, calls'[Len(calls')])
                   /\ calls'[Len(calls')].op = "integrate_with_build"
                   /\ (calls'[Len(calls')].out.kind = "return") =>
                         /\ "jira_integration" \in DOMAIN build_context'
                         /\ build_context'.jira_integration =
                               calls'[Len(calls')].out.value
             /\ build_context'.success = build_context.success
       /\ TicketingRaisedInBody =>
             build_context'.success = build_context.success]_vars

IsCommit(c)  == c.name = "github" /\ c.op = "create_comprehensive_commit"
IsArchive(c) == c.name = "github" /\ c.op = "store_test_artifacts_in_repository"

C24_PostBuildFailureRecorded ==
    [][(pc = "post_build_actions") =>
          /\ pc' = "idle"
          /\ build_context'.success = build_context.success
          /\ IsPrefix(exceptions_collector, exceptions_collector')
          /\ (/\ Len(calls') = Len(calls) + 1
              /\ calls'[Len(calls')].out.kind = "raise") =>
                /\ Len(exceptions_collector') = Len(exceptions_collector) + 1
                /\ exceptions_collector'[Len(exceptions_collector')].component
                      = "post_build_actions"]_vars

IsTicketing(c) == c.name = "jira" /\ c.op = "integrate_with_build"

====
